---- MODULE Spec2Model ----
(***************************************************************************)
(* Model of the LLM council of sw82/llm-council (backend/openrouter.py,    *)
(* backend/council.py, backend/pricing.py).                                *)
(*                                                                         *)
(* Texts are sequences of tokens (strings); f-string formatting and join   *)
(* are concatenation of token sequences.  A Python value that may be None, *)
(* a string or a missing dict key is a record [t, s]: t is its type tag    *)
(* and s the text of a string.  A dict of counters is a function from its  *)
(* keys, so {} is the function with the empty domain.                      *)
(***************************************************************************)
EXTENDS Integers, Sequences, FiniteSets, TLC

---------------------------------------------------------------------------
(* Python values *)

None == [t |-> "none", s |-> <<>>]
Absent == [t |-> "absent", s |-> <<>>]
Str(x) == [t |-> "str", s |-> x]

\* bool(v) of a value that is None, a missing key or a string
Truthy(v) == v.t = "str" /\ v.s # <<>>

\* d.get(k, 0) for a dict of counters
Get(d, k) == IF k \in DOMAIN d THEN d[k] ELSE 0

\* dict.get(key, default): only a MISSING key gives the default
GetOrDefault(v, default) == IF v.t = "absent" THEN default ELSE v

IsSpace(tok) == tok \in {" ", "\n"}

\* s.strip() == '' for a text
IsBlank(s) == \A i \in 1..Len(s) : IsSpace(s[i])

EmptyDict == [k \in {} |-> 0]
ZeroUsage == [prompt_tokens |-> 0, completion_tokens |-> 0, total_tokens |-> 0]

\* the three usage.get(..., 0) of query_model
NormalUsage(u) ==
  [prompt_tokens |-> Get(u, "prompt_tokens"),
   completion_tokens |-> Get(u, "completion_tokens"),
   total_tokens |-> Get(u, "total_tokens")]

---------------------------------------------------------------------------
(* Configuration (backend/config.py) *)

COUNCIL_MODELS ==
  <<"nousresearch/hermes-3-llama-3.1-405b:free",
    "meta-llama/llama-3.1-8b-instruct:free",
    "microsoft/phi-3-mini-128k-instruct:free">>
CHAIRMAN_MODEL == "nousresearch/hermes-3-llama-3.1-405b:free"

---------------------------------------------------------------------------
(* Model Gateway: query_model (backend/openrouter.py)                      *)
(*                                                                         *)
(* A remote reply is what the HTTP exchange did:                           *)
(*   kind "exc"    client.post raised (connection error, timeout): exc is  *)
(*                 str(e);                                                 *)
(*   kind "status" a non-2xx status: code is the status text, body says    *)
(*                 what the error body holds ("nojson", "noerror", or      *)
(*                 "message" with bodymsg = error_body['error']['message'])*)
(*   kind "ok"     a 2xx status: json says whether the body parses,        *)
(*                 choices is len(data['choices']) (0 also when the key is *)
(*                 missing), content and errfield are message['content']   *)
(*                 and message['error'], usage is data['usage'].           *)
(* errfield is Absent, None, a string, or a dict: t = "dict" with          *)
(* s the text under its 'message' key and m saying whether that key is     *)
(* there ("absent", "none", "str").                                        *)
(***************************************************************************)

MkReply(kind, exc, code, body, bodymsg, json, choices, content, errfield, usage) ==
  [kind |-> kind, exc |-> exc, code |-> code, body |-> body, bodymsg |-> bodymsg,
   json |-> json, choices |-> choices, content |-> content, errfield |-> errfield,
   usage |-> usage]

ExcReply(text) ==
  MkReply("exc", text, "", "nojson", None, FALSE, 0, None, Absent, EmptyDict)
StatusReply(code, body, bodymsg) ==
  MkReply("status", <<>>, code, body, bodymsg, FALSE, 0, None, Absent, EmptyDict)
OkReply(json, choices, content, errfield, usage) ==
  MkReply("ok", <<>>, "", "nojson", None, json, choices, content, errfield, usage)

ErrDict(m, text) == [t |-> "dict", s |-> text, m |-> m]

ErrorResult(error) == [content |-> None, error |-> error, usage |-> ZeroUsage]

EMPTY_RESPONSE == Str(<<"Model returned empty response">>)

\* lines 66-68: message.get('error', default), unwrapped when it is a dict
EmptyContentError(errfield) ==
  IF errfield.t = "dict"
    THEN CASE errfield.m = "absent" -> EMPTY_RESPONSE
           [] errfield.m = "none" -> None
           [] OTHER -> Str(errfield.s)
    ELSE GetOrDefault(errfield, EMPTY_RESPONSE)

\* lines 96-112: the error text of a non-2xx status
HttpStatusError(r) ==
  CASE r.body = "message" -> r.bodymsg
    [] r.body = "nojson" -> Str(<<"HTTP ", r.code, ": ", "body">>)
    [] OTHER -> Str(<<"HTTP ", r.code>>)

\* query_model: the ModelResult of one remote reply
QueryModel(r) ==
  CASE r.kind = "exc" -> ErrorResult(Str(r.exc))
    [] r.kind = "status" -> ErrorResult(HttpStatusError(r))
    [] r.kind = "ok" /\ ~r.json ->
         ErrorResult(Str(<<"Failed to parse response: ", "JSONDecodeError">>))
    [] r.kind = "ok" /\ r.json /\ r.choices = 0 ->
         ErrorResult(Str(<<"Invalid response structure: no choices">>))
    [] OTHER ->
         IF ~Truthy(r.content) \/ IsBlank(r.content.s)
           THEN [content |-> None, error |-> EmptyContentError(r.errfield),
                 usage |-> NormalUsage(r.usage)]
           ELSE [content |-> r.content, error |-> Absent,
                 usage |-> NormalUsage(r.usage)]

---------------------------------------------------------------------------
(* Ranking Parser: parse_ranking_from_text (backend/council.py)            *)
(* A ranking text is a sequence of tokens: the marker, a list number       *)
(* ("1."), a label ("Response A"), white space, or any other word.         *)
(***************************************************************************)

MARKER == "FINAL RANKING:"
UpperCase ==
  <<"A", "B", "C", "D", "E", "F", "G", "H", "I", "J", "K", "L", "M",
    "N", "O", "P", "Q", "R", "S", "T", "U", "V", "W", "X", "Y", "Z">>
\* chr(65 + i): the characters after "Z" are "[", a backslash, "]", "^", "_"
AfterZ == <<"[", "\\", "]", "^", "_">>
\* labels that start at the second letter: chr(66 + i)
Chr65_FromB(i) ==
  IF i + 1 < Len(UpperCase) THEN UpperCase[i + 2] ELSE AfterZ[i - Len(UpperCase) + 2]
Chr65(i) == IF i < Len(UpperCase) THEN UpperCase[i + 1] ELSE AfterZ[i - Len(UpperCase) + 1]

\* the tokens the pattern 'Response [A-Z]' matches
LabelTokens == {"Response " \o UpperCase[i] : i \in 1..Len(UpperCase)}
IsLabel(tok) == tok \in LabelTokens
\* the tokens the pattern '\d+\.' matches
IsNumber(tok) == tok \in {"1.", "2.", "3.", "4.", "5.", "10."}

\* a findall that keeps only the first occurrence of each label
FindLabels_Distinct(text) ==
  LET F[j \in 0..Len(text)] ==
        IF j = 0 THEN <<>>
        ELSE IF IsLabel(text[j]) /\ \A k \in 1..(j - 1) : text[k] # text[j]
               THEN Append(F[j - 1], text[j])
               ELSE F[j - 1]
  IN F[Len(text)]

\* re.findall(r'Response [A-Z]', text)
FindLabels(text) == SelectSeq(text, IsLabel)

\* re.findall(r'\d+\.\s*Response [A-Z]', text), each match cut to its label
\* (lines 260-263): a label that follows a list number with only white space,
\* or nothing, between them
Numbered(text, j) ==
  /\ IsLabel(text[j])
  /\ \E i \in 1..(j - 1) : /\ IsNumber(text[i])
                           /\ \A k \in (i + 1)..(j - 1) : IsSpace(text[k])
FindNumbered(text) ==
  LET F[j \in 0..Len(text)] ==
        IF j = 0 THEN <<>>
        ELSE IF Numbered(text, j) THEN Append(F[j - 1], text[j]) ELSE F[j - 1]
  IN F[Len(text)]

HasMarker(text) == \E i \in 1..Len(text) : text[i] = MARKER
FirstMarker(text) == CHOOSE i \in 1..Len(text) :
                       text[i] = MARKER /\ \A j \in 1..(i - 1) : text[j] # MARKER

\* ranking_text.split("FINAL RANKING:")[1]: from the first marker to the
\* next marker, or to the end of the text
SectionAfterMarker(text) ==
  LET rest == SubSeq(text, FirstMarker(text) + 1, Len(text))
  IN IF HasMarker(rest) THEN SubSeq(rest, 1, FirstMarker(rest) - 1) ELSE rest

\* a parser without the numbered-list form: every label of the section
ParseRanking_FallbackOnly(text) ==
  IF HasMarker(text) THEN FindLabels(SectionAfterMarker(text)) ELSE FindLabels(text)

\* parse_ranking_from_text of a string
ParseRanking(text) ==
  IF HasMarker(text)
    THEN LET section == SectionAfterMarker(text)
             numbered == FindNumbered(section)
         IN IF numbered # <<>> THEN numbered ELSE FindLabels(section)
    ELSE FindLabels(text)

\* '"FINAL RANKING:" in ranking_text' raises TypeError unless it is a string
ParseRaises(v) == v.t # "str"

---------------------------------------------------------------------------
(* Stage 1 formatting: stage1_collect_responses, lines 29-74               *)
(* A mapping returned by query_models_parallel is a sequence of            *)
(* [model, response] in the dict's insertion order.                        *)
(***************************************************************************)

ERROR_BANNER == "X Error: "
ALL_FAILED_TEXT == "All council models failed. Common causes: ... Errors received:"

MkEntry(model, response, error, usage) ==
  [model |-> model, response |-> response, error |-> error, usage |-> usage]

\* the entries one (model, response) pair appends: lines 34-51
Stage1EntryOf(model, response) ==
  IF Truthy(response.error)
    THEN <<MkEntry(model, <<ERROR_BANNER>> \o response.error.s,
                   response.error, response.usage)>>
    ELSE IF Truthy(response.content)
      THEN <<MkEntry(model, response.content.s, Absent, response.usage)>>
      ELSE <<>>

\* the line all_errors gets for one pair: f"{model}: {error_msg}"
Stage1ErrorOf(model, response) ==
  IF Truthy(response.error)
    THEN <<(<<model, ": ">> \o response.error.s)>>
    ELSE <<>>

RECURSIVE Stage1Loop(_)
Stage1Loop(responses) ==
  IF responses = <<>> THEN <<>>
  ELSE LET n == Len(responses)
       IN Stage1Loop(SubSeq(responses, 1, n - 1))
            \o Stage1EntryOf(responses[n].model, responses[n].response)

RECURSIVE AllErrors(_)
AllErrors(responses) ==
  IF responses = <<>> THEN <<>>
  ELSE LET n == Len(responses)
       IN AllErrors(SubSeq(responses, 1, n - 1))
            \o Stage1ErrorOf(responses[n].model, responses[n].response)

\* chr(10).join(f'  * {e}' for e in errors)
RECURSIVE JoinErrors(_)
JoinErrors(errors) ==
  IF errors = <<>> THEN <<>>
  ELSE LET n == Len(errors)
       IN JoinErrors(SubSeq(errors, 1, n - 1))
            \o (IF n > 1 THEN <<"\n">> ELSE <<>>) \o <<"  * ">> \o errors[n]

FirstN(s, n) == SubSeq(s, 1, IF Len(s) < n THEN Len(s) ELSE n)

SystemEntry(all_errors) ==
  MkEntry("system", <<ALL_FAILED_TEXT>> \o JoinErrors(FirstN(all_errors, 5)),
          Str(<<"all_models_failed">>), EmptyDict)

\* the condition without its all(...) half
AllFailed_OnlyEmpty(results) == Len(results) = 0

\* line 54: len(stage1_results) == 0 or all(r.get('error') for r in ...)
AllFailed(results) ==
  Len(results) = 0 \/ \A i \in 1..Len(results) : Truthy(results[i].error)

\* total failure replacing the entries instead of adding to them
Stage1Results_OnlySystem(responses) ==
  LET results == Stage1Loop(responses)
  IN IF AllFailed(results) THEN <<SystemEntry(AllErrors(responses))>> ELSE results

\* the list stage1_collect_responses returns for a mapping
Stage1Results(responses) ==
  LET results == Stage1Loop(responses)
  IN IF AllFailed(results)
       THEN Append(results, SystemEntry(AllErrors(responses)))
       ELSE results

---------------------------------------------------------------------------
(* Stage 2 formatting: stage2_collect_rankings, lines 93-167 *)

PROMPT_HEAD == "You are evaluating different responses to the following question:"
PROMPT_TAIL == "Your task: ... Now provide your evaluation and ranking:"

\* f"Response {label}" of the i-th stage-1 entry (1-based here)
LabelOf(i) == "Response " \o Chr65(i - 1)

\* lines 98-101: a dict comprehension, so a repeated key keeps its last value
LabelToModel(stage1) ==
  [l \in {LabelOf(i) : i \in 1..Len(stage1)} |->
     LET last == CHOOSE i \in 1..Len(stage1) :
                   /\ LabelOf(i) = l
                   /\ \A j \in (i + 1)..Len(stage1) : LabelOf(j) # l
     IN stage1[last].model]

\* lines 104-107: "\n\n".join(f"Response {label}:\n{result['response']}")
RECURSIVE ResponsesText(_)
ResponsesText(stage1) ==
  IF stage1 = <<>> THEN <<>>
  ELSE LET n == Len(stage1)
       IN ResponsesText(SubSeq(stage1, 1, n - 1))
            \o (IF n > 1 THEN <<"\n\n">> ELSE <<>>)
            \o <<LabelOf(n) \o ":", "\n">> \o stage1[n].response

RankingPrompt(user_query, stage1) ==
  <<PROMPT_HEAD, user_query>> \o ResponsesText(stage1) \o <<PROMPT_TAIL>>

\* line 152 raises for a response whose content is None
Stage2Raises(responses) ==
  \E i \in 1..Len(responses) : ParseRaises(responses[i].response.content)

\* lines 149-165: one entry per response of the mapping
Stage2Results(responses) ==
  [i \in 1..Len(responses) |->
     [model |-> responses[i].model,
      ranking |-> responses[i].response.content.s,
      parsed_ranking |-> ParseRanking(responses[i].response.content.s),
      usage |-> responses[i].response.usage]]

---------------------------------------------------------------------------
(* calculate_aggregate_rankings, lines 274-318 *)

\* positions counted over the resolvable labels only
MentionsOf_ResolvedOnly(entry, label_to_model) ==
  LET parsed == SelectSeq(ParseRanking(entry.ranking),
                          LAMBDA l : l \in DOMAIN label_to_model)
  IN [i \in 1..Len(parsed) |-> [model |-> label_to_model[parsed[i]], position |-> i]]

\* positions counted from 0 (enumerate without start=1)
MentionsOf_FromZero(entry, label_to_model) ==
  LET parsed == ParseRanking(entry.ranking)
      resolved == {i \in 1..Len(parsed) : parsed[i] \in DOMAIN label_to_model}
      F[i \in 0..Len(parsed)] ==
        IF i = 0 THEN <<>>
        ELSE IF i \in resolved
               THEN Append(F[i - 1], [model |-> label_to_model[parsed[i]],
                                      position |-> i - 1])
               ELSE F[i - 1]
  IN F[Len(parsed)]

\* the (model, position) pairs one Stage2Entry adds, lines 297-302
MentionsOf(entry, label_to_model) ==
  LET parsed == ParseRanking(entry.ranking)
      F[i \in 0..Len(parsed)] ==
        IF i = 0 THEN <<>>
        ELSE IF parsed[i] \in DOMAIN label_to_model
               THEN Append(F[i - 1], [model |-> label_to_model[parsed[i]],
                                      position |-> i])
               ELSE F[i - 1]
  IN F[Len(parsed)]

RECURSIVE AllMentions(_, _)
AllMentions(stage2, label_to_model) ==
  IF stage2 = <<>> THEN <<>>
  ELSE LET n == Len(stage2)
       IN AllMentions(SubSeq(stage2, 1, n - 1), label_to_model)
            \o MentionsOf(stage2[n], label_to_model)

\* the keys of model_positions in insertion order
FirstSeen(mentions) ==
  LET F[i \in 0..Len(mentions)] ==
        IF i = 0 THEN <<>>
        ELSE IF \E j \in 1..(i - 1) : mentions[j].model = mentions[i].model
               THEN F[i - 1]
               ELSE Append(F[i - 1], mentions[i].model)
  IN F[Len(mentions)]

PositionsOf(mentions, model) ==
  LET mine == SelectSeq(mentions, LAMBDA m : m.model = model)
  IN [i \in 1..Len(mine) |-> mine[i].position]

RECURSIVE SumSeq(_)
SumSeq(s) == IF s = <<>> THEN 0 ELSE s[1] + SumSeq(Tail(s))

\* round(sum / n, 2) in hundredths; with fewer than 8 positions sum / n is
\* never half way between two hundredths
AverageRank(positions) ==
  (200 * SumSeq(positions) + Len(positions)) \div (2 * Len(positions))

\* a sort that puts an element before the earlier ones of equal rank
RECURSIVE SortByRank_TiesReversed(_)
SortByRank_TiesReversed(agg) ==
  IF agg = <<>> THEN <<>>
  ELSE LET n == Len(agg)
           sorted == SortByRank_TiesReversed(SubSeq(agg, 1, n - 1))
           k == Cardinality({i \in 1..(n - 1) : sorted[i].average_rank < agg[n].average_rank})
       IN SubSeq(sorted, 1, k) \o <<agg[n]>> \o SubSeq(sorted, k + 1, n - 1)

\* list.sort(key=average_rank): stable insertion into a sorted list
RECURSIVE SortByRank(_)
SortByRank(agg) ==
  IF agg = <<>> THEN <<>>
  ELSE LET n == Len(agg)
           sorted == SortByRank(SubSeq(agg, 1, n - 1))
           k == Cardinality({i \in 1..(n - 1) : sorted[i].average_rank <= agg[n].average_rank})
       IN SubSeq(sorted, 1, k) \o <<agg[n]>> \o SubSeq(sorted, k + 1, n - 1)

CalculateAggregateRankings(stage2, label_to_model) ==
  LET mentions == AllMentions(stage2, label_to_model)
      models == FirstSeen(mentions)
  IN SortByRank([i \in 1..Len(models) |->
       [model |-> models[i],
        average_rank |-> AverageRank(PositionsOf(mentions, models[i])),
        rankings_count |-> Len(PositionsOf(mentions, models[i]))]])

---------------------------------------------------------------------------
(* stage3_synthesize_final, lines 220-237 *)

CHAIRMAN_BANNER == "X Chairman Error: "

\* f"{v}" of a value that is a string or None
Format(v) == IF v.t = "str" THEN v.s ELSE <<"None">>

Stage3Result(target_model, response) ==
  IF Truthy(response.error) \/ ~Truthy(response.content)
    THEN LET error_detail == GetOrDefault(response.error, Str(<<"No response">>))
         IN MkEntry(target_model, <<CHAIRMAN_BANNER>> \o Format(error_detail),
                    error_detail, response.usage)
    ELSE MkEntry(target_model, response.content.s, Absent, response.usage)

---------------------------------------------------------------------------
(* Cost Accountant: get_model_price, calculate_cost (backend/pricing.py)   *)
(* The price list is a sequence of entries [id, prompt, completion].  id   *)
(* is Absent (no "id" key) or a string.  prompt and completion are what    *)
(* the entry's pricing holds under these keys: NoPrice (no such key, or no *)
(* "pricing" key), NullPrice (a JSON null), or Num(n), a per-token price   *)
(* of n / PriceUnit dollars per million tokens.  A cost is counted in      *)
(* millionths of a dollar, the precision of round(cost, 6).  With prices   *)
(* on this grid no cost lies half way between two millionths, where the    *)
(* representation error of the float would decide the rounding.            *)
(***************************************************************************)

PriceUnit == 5
Num(n) == [t |-> "num", n |-> n]
NoPrice == [t |-> "absent", n |-> 0]
NullPrice == [t |-> "none", n |-> 0]

PriceEntry(id, prompt, completion) ==
  [id |-> id, prompt |-> prompt, completion |-> completion]

\* the entries get_model_price reads: up to the first one with the id
PriceScan(prices, model_id) ==
  IF \E i \in 1..Len(prices) : prices[i].id = Str(<<model_id>>)
    THEN SubSeq(prices, 1, CHOOSE i \in 1..Len(prices) :
                  /\ prices[i].id = Str(<<model_id>>)
                  /\ \A j \in 1..(i - 1) : prices[j].id # Str(<<model_id>>))
    ELSE prices

\* whether get_model_price finds an entry, which is then the last it reads
PriceFound(prices, model_id) ==
  LET scan == PriceScan(prices, model_id)
  IN scan # <<>> /\ scan[Len(scan)].id = Str(<<model_id>>)

\* what get_model_price raises: m["id"] a KeyError for an entry without the
\* key (line 59), float(None) a TypeError (lines 62-63)
PriceError(prices, model_id) ==
  LET scan == PriceScan(prices, model_id)
  IN IF \E i \in 1..Len(scan) : scan[i].id.t = "absent" THEN "KeyError"
     ELSE IF /\ PriceFound(prices, model_id)
             /\ "none" \in {scan[Len(scan)].prompt.t, scan[Len(scan)].completion.t}
            THEN "TypeError"
     ELSE "none"

PriceRaises(prices, model_id) == PriceError(prices, model_id) # "none"

\* pricing.get("prompt", 0) and pricing.get("completion", 0) of the entry
\* found, (0.0, 0.0) when there is none
GetModelPrice(prices, model_id) ==
  LET scan == PriceScan(prices, model_id)
  IN IF PriceFound(prices, model_id)
       THEN <<scan[Len(scan)].prompt.n, scan[Len(scan)].completion.n>>
       ELSE <<0, 0>>

\* a cost cut to whole millionths instead of rounded
RoundMicro_Truncated(raw) == raw \div PriceUnit

\* round(cost, 6) of a cost of raw / PriceUnit millionths: the nearest one
RoundMicro(raw) == (2 * raw + PriceUnit) \div (2 * PriceUnit)

CalculateCost(prices, model_id, prompt_tokens, completion_tokens) ==
  LET price == GetModelPrice(prices, model_id)
  IN RoundMicro(prompt_tokens * price[1] + completion_tokens * price[2])

---------------------------------------------------------------------------
(* calculate_council_metadata, lines 369-426 *)

\* an account that leaves the stage-2 calls out
Accounted_WithoutStage2(stage1, stage2, stage3) ==
  [i \in 1..Len(stage1) |-> [stage |-> "1", model |-> stage1[i].model, usage |-> stage1[i].usage]]
  \o <<[stage |-> "3", model |-> stage3.model, usage |-> stage3.usage]>>

\* the calls the metadata accounts for, in the order of the three loops
Accounted(stage1, stage2, stage3) ==
  [i \in 1..Len(stage1) |-> [stage |-> "1", model |-> stage1[i].model, usage |-> stage1[i].usage]]
  \o [i \in 1..Len(stage2) |-> [stage |-> "2", model |-> stage2[i].model, usage |-> stage2[i].usage]]
  \o <<[stage |-> "3", model |-> stage3.model, usage |-> stage3.usage]>>

MetadataRaises(prices, stage1, stage2, stage3) ==
  LET acc == Accounted(stage1, stage2, stage3)
  IN \E i \in 1..Len(acc) : PriceRaises(prices, acc[i].model)

\* the exception of the first call that raises
MetadataError(prices, stage1, stage2, stage3) ==
  LET acc == Accounted(stage1, stage2, stage3)
      first == CHOOSE i \in 1..Len(acc) :
                 /\ PriceRaises(prices, acc[i].model)
                 /\ \A j \in 1..(i - 1) : ~PriceRaises(prices, acc[j].model)
  IN PriceError(prices, acc[first].model)

CalculateCouncilMetadata(prices, stage1, stage2, stage3, label_to_model, aggregate_rankings) ==
  LET acc == Accounted(stage1, stage2, stage3)
      CostOf(a) == CalculateCost(prices, a.model, Get(a.usage, "prompt_tokens"),
                                 Get(a.usage, "completion_tokens"))
      Total(k) == SumSeq([i \in 1..Len(acc) |-> Get(acc[i].usage, k)])
  IN [label_to_model |-> label_to_model,
      aggregate_rankings |-> aggregate_rankings,
      usage |-> [prompt_tokens |-> Total("prompt_tokens"),
                 completion_tokens |-> Total("completion_tokens"),
                 total_tokens |-> Total("total_tokens")],
      cost |-> SumSeq([i \in 1..Len(acc) |-> CostOf(acc[i])]),
      cost_breakdown |-> [i \in 1..Len(acc) |->
                            [stage |-> acc[i].stage, model |-> acc[i].model,
                             cost |-> CostOf(acc[i])]]]

CHAIRMAN_HEAD == "You are the Chairman of an LLM Council. ... Original Question:"
CHAIRMAN_TAIL == "Your task as Chairman is to synthesize ... collective wisdom:"

\* lines 190-193
RECURSIVE Stage1Text(_)
Stage1Text(stage1) ==
  IF stage1 = <<>> THEN <<>>
  ELSE LET n == Len(stage1)
       IN Stage1Text(SubSeq(stage1, 1, n - 1))
            \o (IF n > 1 THEN <<"\n\n">> ELSE <<>>)
            \o <<"Model: ", stage1[n].model, "\n", "Response: ">> \o stage1[n].response

\* lines 195-198
RECURSIVE Stage2Text(_)
Stage2Text(stage2) ==
  IF stage2 = <<>> THEN <<>>
  ELSE LET n == Len(stage2)
       IN Stage2Text(SubSeq(stage2, 1, n - 1))
            \o (IF n > 1 THEN <<"\n\n">> ELSE <<>>)
            \o <<"Model: ", stage2[n].model, "\n", "Ranking: ">> \o stage2[n].ranking

ChairmanPrompt(user_query, stage1, stage2) ==
  <<CHAIRMAN_HEAD, user_query, "STAGE 1 - Individual Responses:">> \o Stage1Text(stage1)
    \o <<"STAGE 2 - Peer Rankings:">> \o Stage2Text(stage2) \o <<CHAIRMAN_TAIL>>

---------------------------------------------------------------------------
(* Fan-out Executor: query_models_parallel (backend/openrouter.py)         *)
(* calls is the list of tasks of the fan-out in progress, arrival the      *)
(* indices of the completed ones in the order they completed.              *)
(***************************************************************************)

\* the reply and the result of a task that has not completed
NoReply == MkReply("pending", <<>>, "", "nojson", None, FALSE, 0, None, Absent, EmptyDict)
NoResult == [content |-> None, error |-> None, usage |-> EmptyDict]

\* line 140: one query_model task per element of models
Tasks(models) ==
  [i \in 1..Len(models) |->
     [model |-> models[i], done |-> FALSE, reply |-> NoReply, result |-> NoResult]]

\* a wait that returns at the first completion (FIRST_COMPLETED)
JoinReady_FirstCompleted(cs) == cs = <<>> \/ \E i \in 1..Len(cs) : cs[i].done

\* line 143: asyncio.gather returns once every task has completed
JoinReady(cs) == \A i \in 1..Len(cs) : cs[i].done

\* results collected in the order of completion
GatherResponses_ArrivalOrder(cs, arrived) ==
  [i \in 1..Len(cs) |-> IF i <= Len(arrived) THEN cs[arrived[i]].result ELSE cs[i].result]

\* line 143: gather's results are in the order of the tasks
GatherResponses(cs, arrived) == [i \in 1..Len(cs) |-> cs[i].result]

\* line 146: {model: response for model, response in zip(models, responses)}:
\* a key keeps the place of its first occurrence and the value of its last
DictOfZip(cs, gathered) ==
  LET keys == FirstSeen(cs)
  IN [k \in 1..Len(keys) |->
        [model |-> keys[k],
         response |-> gathered[CHOOSE i \in 1..Len(cs) :
                        /\ cs[i].model = keys[k]
                        /\ \A j \in (i + 1)..Len(cs) : cs[j].model # keys[k]]]]

\* a mapping filled as the calls complete (as_completed)
QueryModelsParallel_AsCompleted(cs, arrived) ==
  LET byArrival == [k \in 1..Len(arrived) |-> cs[arrived[k]]]
  IN DictOfZip(byArrival, [k \in 1..Len(byArrival) |-> byArrival[k].result])

QueryModelsParallel(cs, arrived) == DictOfZip(cs, GatherResponses(cs, arrived))

---------------------------------------------------------------------------
(* Inputs *)

MaxModels == 2
ModelIds == {"m1", "m2"}
ModelLists == UNION {[1..k -> ModelIds] : k \in 0..MaxModels}
List(x) == [t |-> "list", s |-> x]
CouncilArgs == {None} \cup {List(l) : l \in ModelLists}
ChairmanArgs == {None, Str(<<"m2">>)}
UserQuery == "What is a join barrier?"

Usage123 == [prompt_tokens |-> 1, completion_tokens |-> 2, total_tokens |-> 3]
RankingNumbered == <<"Response A", "is", "best", MARKER, "1.", "Response B", "2.", "Response A">>
RankingLoose == <<"Response A", "beats", "Response C", "and", "Response A">>

TimedOut == ExcReply(<<"timed out">>)
NullError == OkReply(TRUE, 1, Str(<<>>), None, Usage123)
Stage1Replies == {TimedOut, NullError, OkReply(TRUE, 1, Str(<<"an answer">>), Absent, Usage123)}
Stage2Replies == {TimedOut, OkReply(TRUE, 1, Str(RankingNumbered), Absent, Usage123),
                  OkReply(TRUE, 1, Str(RankingLoose), Absent, Usage123)}
Stage3Replies == {TimedOut, NullError, OkReply(TRUE, 1, Str(<<"the synthesis">>), Absent, Usage123)}

\* every kind of reply query_model tells apart
PartialUsage == [prompt_tokens |-> 1]
GatewayReplies ==
  { TimedOut,
    StatusReply("402", "message", Str(<<"quota exceeded">>)),
    StatusReply("401", "message", None),
    StatusReply("500", "nojson", None),
    StatusReply("404", "noerror", None),
    OkReply(FALSE, 0, None, Absent, EmptyDict),
    OkReply(TRUE, 0, None, Absent, Usage123),
    OkReply(TRUE, 1, None, Absent, Usage123),
    OkReply(TRUE, 1, Str(<<" ", "\n">>), Absent, PartialUsage),
    OkReply(TRUE, 1, Str(<<>>), Str(<<"moderated">>), Usage123),
    OkReply(TRUE, 1, Str(<<>>), Str(<<>>), Usage123),
    NullError,
    OkReply(TRUE, 1, None, ErrDict("str", <<"rate limited">>), EmptyDict),
    OkReply(TRUE, 1, None, ErrDict("absent", <<>>), EmptyDict),
    OkReply(TRUE, 1, None, ErrDict("none", <<>>), EmptyDict),
    OkReply(TRUE, 1, Str(<<"an answer">>), Absent, Usage123),
    OkReply(TRUE, 1, Str(<<"an answer">>), Absent, PartialUsage) }

\* one reply for each shape of ModelResult stage 1 tells apart
CollectReplies ==
  Stage1Replies \cup
  { StatusReply("402", "message", Str(<<"quota exceeded">>)),
    OkReply(TRUE, 1, Str(<<>>), Str(<<"moderated">>), Usage123),
    OkReply(TRUE, 1, Str(<<"another answer">>), Absent, PartialUsage) }

\* the texts a title model answers with, character by character: a body of
\* up to MaxTitleLen letters between white space and quotes
MaxTitleLen == 52
TitleChar(i) == <<"a", "b", "c", "d", "e", "f", "g">>[(i % 7) + 1]
TitleWraps == {<<>>, <<" ">>, <<"\"">>, <<"\"", " ">>, <<" ", "'">>, <<"\n", "'", "\"">>}
TitleTexts ==
  {pre \o [i \in 1..n |-> TitleChar(i)] \o post :
     n \in 0..MaxTitleLen, pre \in TitleWraps, post \in TitleWraps}
TitleReplies ==
  {TimedOut, NullError, StatusReply("402", "message", Str(<<"quota exceeded">>)),
   OkReply(TRUE, 1, None, Absent, Usage123)}
    \cup {OkReply(TRUE, 1, Str(text), Absent, Usage123) : text \in TitleTexts}

RepliesAt(stage) ==
  CASE stage = "stage1" -> Stage1Replies
    [] stage = "title" -> TitleReplies
    [] stage = "stage2" -> Stage2Replies
    [] stage = "stage3" -> Stage3Replies
    [] stage = "collect" -> CollectReplies
    [] OTHER -> GatewayReplies

\* price lists the pricing collaborator serves during a run
PricingData ==
  { <<>>,
    <<PriceEntry(Str(<<"m1">>), Num(2), Num(6)),
      PriceEntry(Str(<<CHAIRMAN_MODEL>>), Num(1), Num(1))>>,
    <<PriceEntry(Str(<<"other">>), Num(3), Num(3)),
      PriceEntry(Str(<<"m2">>), Num(0), Num(4))>> }

---------------------------------------------------------------------------
(* run_full_council (backend/council.py, lines 429-480) as a state machine *)
(* whose steps are cut at the awaits on the Model Gateway.                 *)
(***************************************************************************)

VARIABLES pc, council_models, chairman_model, calls, arrival, requests,
          fanouts, responses, stage1_results, label_to_model, stage2_results,
          aggregate_rankings, stage3_result, metadata, ret, exception,
          args, value, pricing_cache, clock, fetches, cache_writes

vars == <<pc, council_models, chairman_model, calls, arrival, requests,
          fanouts, responses, stage1_results, label_to_model, stage2_results,
          aggregate_rankings, stage3_result, metadata, ret, exception,
          args, value, pricing_cache, clock, fetches, cache_writes>>

\* the pricing cache of the process (backend/pricing.py, lines 10-13), the
\* time time.time() gives, the calls of fetch_openrouter_models, and what
\* has been assigned to the cache so far
pricing == <<pricing_cache, clock, fetches, cache_writes>>

\* the module as imported, with no call of fetch_openrouter_models followed
NoFetch ==
  /\ pricing_cache = [data |-> <<>>, timestamp |-> 0]
  /\ clock = 0
  /\ fetches = <<>>
  /\ cache_writes = <<>>

\* the arguments and the return value of a function called on its own,
\* and what a run leaves to the pricing collaborator
frame == <<args, value, pricing>>

results == <<stage1_results, label_to_model, stage2_results, aggregate_rankings,
             stage3_result, metadata, ret, exception>>

\* lines 23 and 93: models if models else COUNCIL_MODELS
TargetModels(arg) == IF arg.t = "list" /\ arg.s # <<>> THEN arg.s ELSE COUNCIL_MODELS
\* line 188
TargetChairman(arg) == IF Truthy(arg) THEN arg.s[1] ELSE CHAIRMAN_MODEL

Requests(stage, models, prompt) ==
  [i \in 1..Len(models) |-> [stage |-> stage, model |-> models[i], prompt |-> prompt]]

\* what a fan-out had launched and collected when it returned
Returned(stage) == [stage |-> stage, calls |-> calls]

ERROR_PLACEHOLDER ==
  [model |-> "error", response |-> <<"All models failed to respond. Please try again.">>]

Init ==
  /\ pc = "idle"
  /\ council_models = None
  /\ chairman_model = None
  /\ calls = <<>>
  /\ arrival = <<>>
  /\ requests = <<>>
  /\ fanouts = <<>>
  /\ responses = <<>>
  /\ stage1_results = <<>>
  /\ label_to_model = EmptyDict
  /\ stage2_results = <<>>
  /\ aggregate_rankings = <<>>
  /\ stage3_result = EmptyDict
  /\ metadata = EmptyDict
  /\ ret = <<>>
  /\ exception = "none"
  /\ args = EmptyDict
  /\ value = EmptyDict
  /\ NoFetch

\* run_full_council is called; stage 1 launches its fan-out (lines 446, 23-27)
Invoke(cm, ch) ==
  /\ pc = "idle"
  /\ UNCHANGED frame
  /\ pc' = "stage1"
  /\ council_models' = cm
  /\ chairman_model' = ch
  /\ calls' = Tasks(TargetModels(cm))
  /\ arrival' = <<>>
  /\ requests' = Requests("1", TargetModels(cm), <<UserQuery>>)
  /\ UNCHANGED <<fanouts, responses, results>>

\* one pending Model Gateway call completes with the ModelResult of its reply
Complete(i, r) ==
  /\ pc \in {"stage1", "stage2", "stage3", "fanout", "collect", "title"}
  /\ UNCHANGED frame
  /\ i \in 1..Len(calls)
  /\ ~calls[i].done
  /\ calls' = [calls EXCEPT ![i] = [@ EXCEPT !.done = TRUE, !.reply = r,
                                                 !.result = QueryModel(r)]]
  /\ arrival' = Append(arrival, i)
  /\ UNCHANGED <<pc, council_models, chairman_model, requests, fanouts, responses, results>>

\* the stage-1 fan-out returns: lines 27-74, then 449-453 or 93-143
Stage1Return ==
  /\ pc = "stage1"
  /\ UNCHANGED frame
  /\ JoinReady(calls)
  /\ LET mapping == QueryModelsParallel(calls, arrival)
         stage1 == Stage1Results(mapping)
         prompt == RankingPrompt(UserQuery, stage1)
     IN /\ responses' = mapping
        /\ fanouts' = Append(fanouts, Returned("1"))
        /\ IF stage1 = <<>>
             THEN /\ pc' = "done"
                  /\ ret' = [stage1 |-> <<>>, stage2 |-> <<>>,
                             stage3 |-> ERROR_PLACEHOLDER, metadata |-> EmptyDict]
                  /\ UNCHANGED <<calls, arrival, requests, stage1_results, label_to_model>>
             ELSE /\ pc' = "stage2"
                  /\ stage1_results' = stage1
                  /\ label_to_model' = LabelToModel(stage1)
                  /\ calls' = Tasks(TargetModels(council_models))
                  /\ arrival' = <<>>
                  /\ requests' = requests \o Requests("2", TargetModels(council_models), prompt)
                  /\ UNCHANGED ret
  /\ UNCHANGED <<council_models, chairman_model, stage2_results, aggregate_rankings,
                 stage3_result, metadata, exception>>

\* the stage-2 fan-out returns: lines 143-167, 461, then 188-220
Stage2Return ==
  /\ pc = "stage2"
  /\ UNCHANGED frame
  /\ JoinReady(calls)
  /\ LET mapping == QueryModelsParallel(calls, arrival)
     IN /\ responses' = mapping
        /\ fanouts' = Append(fanouts, Returned("2"))
        /\ IF Stage2Raises(mapping)
             THEN /\ pc' = "raised"
                  /\ exception' = "TypeError"
                  /\ UNCHANGED <<calls, arrival, requests, stage2_results, aggregate_rankings>>
             ELSE LET stage2 == Stage2Results(mapping)
                      chairman == TargetChairman(chairman_model)
                  IN /\ pc' = "stage3"
                     /\ stage2_results' = stage2
                     /\ aggregate_rankings' = CalculateAggregateRankings(stage2, label_to_model)
                     /\ calls' = Tasks(<<chairman>>)
                     /\ arrival' = <<>>
                     /\ requests' = requests \o
                          Requests("3", <<chairman>>,
                                   ChairmanPrompt(UserQuery, stage1_results, stage2))
                     /\ UNCHANGED exception
  /\ UNCHANGED <<council_models, chairman_model, stage1_results, label_to_model,
                 stage3_result, metadata, ret>>

\* the chairman call returns: lines 220-237, then 472-480
\* prices is what the pricing collaborator serves to this run
Stage3ReturnWith(prices) ==
  /\ pc = "stage3"
  /\ UNCHANGED frame
  /\ JoinReady(calls)
  /\ LET stage3 == Stage3Result(calls[1].model, calls[1].result)
     IN /\ stage3_result' = stage3
        /\ IF MetadataRaises(prices, stage1_results, stage2_results, stage3)
             THEN /\ pc' = "raised"
                  /\ exception' = MetadataError(prices, stage1_results, stage2_results, stage3)
                  /\ UNCHANGED <<metadata, ret>>
             ELSE LET md == CalculateCouncilMetadata(prices, stage1_results, stage2_results,
                                                     stage3, label_to_model, aggregate_rankings)
                  IN /\ pc' = "done"
                     /\ metadata' = md
                     /\ ret' = [stage1 |-> stage1_results, stage2 |-> stage2_results,
                                stage3 |-> stage3, metadata |-> md]
                     /\ UNCHANGED exception
  /\ UNCHANGED <<council_models, chairman_model, calls, arrival, requests, fanouts,
                 responses, stage1_results, label_to_model, stage2_results,
                 aggregate_rankings>>

Stage3Return == \E prices \in PricingData : Stage3ReturnWith(prices)

Next ==
  \/ \E cm \in CouncilArgs, ch \in ChairmanArgs : Invoke(cm, ch)
  \/ \E i \in 1..Len(calls), r \in RepliesAt(pc) : Complete(i, r)
  \/ Stage1Return
  \/ Stage2Return
  \/ Stage3Return

Spec == Init /\ [][Next]_vars

---------------------------------------------------------------------------
(* query_models_parallel on its own: one fan-out over any list of models,  *)
(* the empty one included.  council_models holds the models argument.      *)
(***************************************************************************)

InitFanout ==
  /\ pc = "fanout"
  /\ council_models \in {List(l) : l \in ModelLists}
  /\ chairman_model = None
  /\ calls = Tasks(council_models.s)
  /\ arrival = <<>>
  /\ requests = Requests("fanout", council_models.s, <<UserQuery>>)
  /\ fanouts = <<>>
  /\ responses = <<>>
  /\ stage1_results = <<>>
  /\ label_to_model = EmptyDict
  /\ stage2_results = <<>>
  /\ aggregate_rankings = <<>>
  /\ stage3_result = EmptyDict
  /\ metadata = EmptyDict
  /\ ret = <<>>
  /\ exception = "none"
  /\ args = EmptyDict
  /\ value = EmptyDict
  /\ NoFetch

\* query_models_parallel returns its mapping (lines 143-146)
FanoutReturn ==
  /\ pc = "fanout"
  /\ UNCHANGED frame
  /\ JoinReady(calls)
  /\ pc' = "fanout_done"
  /\ responses' = QueryModelsParallel(calls, arrival)
  /\ fanouts' = Append(fanouts, Returned("fanout"))
  /\ UNCHANGED <<council_models, chairman_model, calls, arrival, requests, results>>

NextFanout ==
  \/ \E i \in 1..Len(calls), r \in RepliesAt(pc) : Complete(i, r)
  \/ FanoutReturn

SpecFanout == InitFanout /\ [][NextFanout]_vars

---------------------------------------------------------------------------
(* stage1_collect_responses on its own (lines 23-74) *)

InitStage1 ==
  /\ pc = "collect"
  /\ council_models \in CouncilArgs
  /\ chairman_model = None
  /\ calls = Tasks(TargetModels(council_models))
  /\ arrival = <<>>
  /\ requests = Requests("1", TargetModels(council_models), <<UserQuery>>)
  /\ fanouts = <<>>
  /\ responses = <<>>
  /\ stage1_results = <<>>
  /\ label_to_model = EmptyDict
  /\ stage2_results = <<>>
  /\ aggregate_rankings = <<>>
  /\ stage3_result = EmptyDict
  /\ metadata = EmptyDict
  /\ ret = <<>>
  /\ exception = "none"
  /\ args = EmptyDict
  /\ value = EmptyDict
  /\ NoFetch

\* the fan-out returns and stage1_collect_responses returns its list
Stage1CollectReturn ==
  /\ pc = "collect"
  /\ UNCHANGED frame
  /\ JoinReady(calls)
  /\ pc' = "collect_done"
  /\ responses' = QueryModelsParallel(calls, arrival)
  /\ fanouts' = Append(fanouts, Returned("1"))
  /\ stage1_results' = Stage1Results(responses')
  /\ UNCHANGED <<council_models, chairman_model, calls, arrival, requests,
                 label_to_model, stage2_results, aggregate_rankings, stage3_result,
                 metadata, ret, exception>>

NextStage1 ==
  \/ \E i \in 1..Len(calls), r \in RepliesAt(pc) : Complete(i, r)
  \/ Stage1CollectReturn

SpecStage1 == InitStage1 /\ [][NextStage1]_vars

---------------------------------------------------------------------------
(* run_full_council with any price list the models endpoint may serve:     *)
(* also one with the negative prices of a routing model, and one with an   *)
(* entry that has no id.                                                   *)
(***************************************************************************)

ServedPricingData ==
  PricingData \cup
    { <<PriceEntry(Str(<<"m1">>), Num(0 - PriceUnit), Num(0 - PriceUnit))>>,
      <<PriceEntry(Absent, Num(1), Num(1))>> }

Stage3ReturnServed == \E prices \in ServedPricingData : Stage3ReturnWith(prices)

NextPriced ==
  \/ \E cm \in CouncilArgs, ch \in ChairmanArgs : Invoke(cm, ch)
  \/ \E i \in 1..Len(calls), r \in RepliesAt(pc) : Complete(i, r)
  \/ Stage1Return
  \/ Stage2Return
  \/ Stage3ReturnServed

SpecPriced == Init /\ [][NextPriced]_vars

---------------------------------------------------------------------------
(* The labelling step of a run with a large council: the run is taken up   *)
(* when every call of the stage-1 fan-out has completed, for a council of  *)
(* 1 to MaxCouncil distinct models of which all, none, all but one or      *)
(* just one answered.                                                      *)
(***************************************************************************)

MaxCouncil == 26
CouncilMember(i) == "member-" \o ToString(i)
Answered == OkReply(TRUE, 1, Str(<<"an answer">>), Absent, Usage123)

\* who answered: everybody (all, nobody excepted), nobody, everybody
\* except member k, or member k alone
Outcomes(n) ==
  {[i \in 1..n |-> TRUE], [i \in 1..n |-> FALSE]}
    \cup {[i \in 1..n |-> i # k] : k \in 1..n}
    \cup {[i \in 1..n |-> i = k] : k \in 1..n}

CompletedTasks(models, answered) ==
  [i \in 1..Len(models) |->
     LET r == IF answered[i] THEN Answered ELSE TimedOut
     IN [model |-> models[i], done |-> TRUE, reply |-> r, result |-> QueryModel(r)]]

InitLabels ==
  /\ pc = "stage1"
  /\ \E n \in 1..MaxCouncil, answered \in UNION {Outcomes(k) : k \in 1..MaxCouncil} :
       /\ Len(answered) = n
       /\ council_models = List([i \in 1..n |-> CouncilMember(i)])
       /\ calls = CompletedTasks(council_models.s, answered)
       /\ arrival = [i \in 1..n |-> i]
       /\ requests = Requests("1", council_models.s, <<UserQuery>>)
  /\ chairman_model = None
  /\ fanouts = <<>>
  /\ responses = <<>>
  /\ stage1_results = <<>>
  /\ label_to_model = EmptyDict
  /\ stage2_results = <<>>
  /\ aggregate_rankings = <<>>
  /\ stage3_result = EmptyDict
  /\ metadata = EmptyDict
  /\ ret = <<>>
  /\ exception = "none"
  /\ args = EmptyDict
  /\ value = EmptyDict
  /\ NoFetch

NextLabels == Stage1Return

SpecLabels == InitLabels /\ [][NextLabels]_vars

---------------------------------------------------------------------------
(* Functions called on their own: args holds the arguments, value what the *)
(* function returned; the variables of a run stay as they start.           *)
(***************************************************************************)

run == <<council_models, chairman_model, calls, arrival, requests, fanouts,
         responses, results>>

NoRun ==
  /\ council_models = None
  /\ chairman_model = None
  /\ calls = <<>>
  /\ arrival = <<>>
  /\ requests = <<>>
  /\ fanouts = <<>>
  /\ responses = <<>>
  /\ stage1_results = <<>>
  /\ label_to_model = EmptyDict
  /\ stage2_results = <<>>
  /\ aggregate_rankings = <<>>
  /\ stage3_result = EmptyDict
  /\ metadata = EmptyDict
  /\ ret = <<>>
  /\ exception = "none"

\* all sequences over a set of at most n elements
SeqsUpTo(S, n) == UNION {[1..k -> S] : k \in 0..n}

---------------------------------------------------------------------------
(* parse_ranking_from_text on its own (lines 240-271) *)

MaxTextLen == 5
RankingTokens == {MARKER, "1.", "Response A", "Response B", "\n", "and"}
RankingTexts == SeqsUpTo(RankingTokens, MaxTextLen)

InitParser ==
  /\ pc = "parse"
  /\ args \in {[ranking_text |-> t] : t \in RankingTexts}
  /\ value = EmptyDict
  /\ NoFetch
  /\ NoRun

ParseReturn ==
  /\ pc = "parse"
  /\ pc' = "parse_done"
  /\ value' = ParseRanking(args.ranking_text)
  /\ UNCHANGED <<args, run, pricing>>

NextParser == ParseReturn

SpecParser == InitParser /\ [][NextParser]_vars

---------------------------------------------------------------------------
(* calculate_aggregate_rankings on its own (lines 274-318): any list of    *)
(* Stage2Entries, as stage 2 builds them, and any label_to_model.          *)
(***************************************************************************)

MaxRankers == 3
AggregateTexts ==
  {<<>>, <<"Response A">>, <<"Response B">>, <<"Response A", "Response B">>,
   <<"Response B", "Response A">>, <<"Response C", "Response A">>, RankingNumbered}
LabelMaps ==
  {EmptyDict,
   [l \in {"Response A", "Response B"} |-> IF l = "Response A" THEN "m1" ELSE "m2"],
   [l \in {"Response A", "Response B"} |-> "m1"],
   [l \in {"Response A", "Response B", "Response C"} |->
      IF l = "Response A" THEN "m1" ELSE IF l = "Response B" THEN "m2" ELSE "m3"]}

\* the Stage2Entries of the rankers that answered with these texts (lines 158-163)
Stage2EntriesOf(texts) ==
  [i \in 1..Len(texts) |->
     [model |-> COUNCIL_MODELS[((i - 1) % Len(COUNCIL_MODELS)) + 1],
      ranking |-> texts[i],
      parsed_ranking |-> ParseRanking(texts[i]),
      usage |-> Usage123]]

InitAggregate ==
  /\ pc = "aggregate"
  /\ args \in {[stage2_results |-> Stage2EntriesOf(texts), label_to_model |-> l2m] :
                 texts \in SeqsUpTo(AggregateTexts, MaxRankers), l2m \in LabelMaps}
  /\ value = EmptyDict
  /\ NoFetch
  /\ NoRun

AggregateReturn ==
  /\ pc = "aggregate"
  /\ pc' = "aggregate_done"
  /\ value' = CalculateAggregateRankings(args.stage2_results, args.label_to_model)
  /\ UNCHANGED <<args, run, pricing>>

NextAggregate == AggregateReturn

SpecAggregate == InitAggregate /\ [][NextAggregate]_vars

---------------------------------------------------------------------------
(* calculate_cost on its own (backend/pricing.py, lines 51-78), over price *)
(* lists as the models endpoint may serve them: entries without an id,     *)
(* without prices, with a null price and with the negative prices of a     *)
(* routing model.                                                          *)
(***************************************************************************)

MaxPrices == 2
MaxTokens == 3
CostEntries ==
  {PriceEntry(Str(<<"m1">>), Num(2), Num(6)),
   PriceEntry(Str(<<"m2">>), Num(3), NoPrice),
   PriceEntry(Str(<<"m1">>), NoPrice, NoPrice),
   PriceEntry(Str(<<"m2">>), Num(0 - PriceUnit), Num(0 - PriceUnit)),
   PriceEntry(Str(<<"m1">>), NullPrice, Num(1)),
   PriceEntry(Absent, Num(1), Num(1))}
CostModels == {"m1", "m2", "system"}

InitCost ==
  /\ pc = "cost"
  /\ args \in {[prices |-> p, model_id |-> m, prompt_tokens |-> pt, completion_tokens |-> ct] :
                 p \in SeqsUpTo(CostEntries, MaxPrices), m \in CostModels,
                 pt \in 0..MaxTokens, ct \in 0..MaxTokens}
  /\ value = EmptyDict
  /\ NoFetch
  /\ NoRun

\* calculate_cost returns the cost, or get_model_price raises through it
CostReturn ==
  /\ pc = "cost"
  /\ IF PriceRaises(args.prices, args.model_id)
       THEN /\ pc' = "raised"
            /\ exception' = PriceError(args.prices, args.model_id)
            /\ UNCHANGED value
       ELSE /\ pc' = "cost_done"
            /\ value' = CalculateCost(args.prices, args.model_id, args.prompt_tokens,
                                      args.completion_tokens)
            /\ UNCHANGED exception
  /\ UNCHANGED <<args, pricing, council_models, chairman_model, calls, arrival, requests, fanouts,
                 responses, stage1_results, label_to_model, stage2_results,
                 aggregate_rankings, stage3_result, metadata, ret>>

NextCost == CostReturn

SpecCost == InitCost /\ [][NextCost]_vars

---------------------------------------------------------------------------
(* fetch_openrouter_models (backend/pricing.py, lines 17-48), called by    *)
(* overlapping runs of one process.  A call is cut at its one await on the *)
(* models endpoint.  fetches holds the calls in the order they started;    *)
(* of each one: current_time, whether it sent a request, what it returned, *)
(* and how many assignments the cache had seen when it started (arrived)   *)
(* and when it ended (completed).  The clock moves in steps of half the    *)
(* time to live.                                                           *)
(***************************************************************************)

CACHE_TTL == 3600
MaxFetches == 3
MaxTicks == 3
HalfTtl == CACHE_TTL \div 2
\* what the models endpoint answers under "data"
FetchedData == PricingData

InitCache ==
  /\ pc = "pricing"
  /\ args = EmptyDict
  /\ value = EmptyDict
  /\ NoRun
  /\ pricing_cache = [data |-> <<>>, timestamp |-> 0]
  /\ clock = CACHE_TTL
  /\ fetches = <<>>
  /\ cache_writes = <<>>

\* line 27: the cache is served while it holds data younger than the TTL
CacheValid(cache, current_time) ==
  cache.data # <<>> /\ current_time - cache.timestamp < CACHE_TTL

\* a call starts (lines 24-32): it returns the cached data or sends a request
FetchCall ==
  /\ Len(fetches) < MaxFetches
  /\ LET valid == CacheValid(pricing_cache, clock)
     IN fetches' = Append(fetches,
          [pc |-> IF valid THEN "done" ELSE "waiting",
           current_time |-> clock,
           requested |-> ~valid,
           outcome |-> IF valid THEN "cached" ELSE "none",
           ret |-> IF valid THEN pricing_cache.data ELSE <<>>,
           arrived |-> Len(cache_writes),
           completed |-> Len(cache_writes)])
  /\ UNCHANGED <<pc, args, value, run, pricing_cache, clock, cache_writes>>

\* the endpoint answered a waiting call with data (lines 33-43)
FetchSucceed(p, data) ==
  /\ p \in 1..Len(fetches)
  /\ fetches[p].pc = "waiting"
  /\ pricing_cache' = [data |-> data, timestamp |-> fetches[p].current_time]
  /\ cache_writes' = Append(cache_writes, [fetch |-> p, data |-> data,
                                           timestamp |-> fetches[p].current_time])
  /\ fetches' = [fetches EXCEPT ![p] = [@ EXCEPT !.pc = "done", !.outcome = "fetched",
                                                 !.ret = data,
                                                 !.completed = Len(cache_writes)]]
  /\ UNCHANGED <<pc, args, value, run, clock>>

\* the request of a waiting call failed (lines 45-48)
FetchFail(p) ==
  /\ p \in 1..Len(fetches)
  /\ fetches[p].pc = "waiting"
  /\ fetches' = [fetches EXCEPT ![p] = [@ EXCEPT !.pc = "done", !.outcome = "failed",
                                                 !.ret = pricing_cache.data,
                                                 !.completed = Len(cache_writes)]]
  /\ UNCHANGED <<pc, args, value, run, pricing_cache, clock, cache_writes>>

\* time passes
Advance ==
  /\ clock < CACHE_TTL + MaxTicks * HalfTtl
  /\ clock' = clock + HalfTtl
  /\ UNCHANGED <<pc, args, value, run, pricing_cache, fetches, cache_writes>>

NextCache ==
  \/ FetchCall
  \/ \E p \in 1..Len(fetches), data \in FetchedData : FetchSucceed(p, data)
  \/ \E p \in 1..Len(fetches) : FetchFail(p)
  \/ Advance

SpecCache == InitCache /\ [][NextCache]_vars

---------------------------------------------------------------------------
(* generate_conversation_title (backend/council.py, lines 321-356): one    *)
(* call of the title model, then the clean-up of its answer.  A title is   *)
(* a sequence of characters.                                               *)
(***************************************************************************)

TITLE_MODEL == "google/gemini-2.5-flash"
TITLE_PROMPT == "Generate a very short title ... Title:"
NEW_CONVERSATION ==
  <<"N", "e", "w", " ", "C", "o", "n", "v", "e", "r", "s", "a", "t", "i", "o", "n">>

\* str.strip(chars): the characters of chars removed from both ends
RECURSIVE StripChars(_, _)
StripChars(s, chars) ==
  IF s = <<>> THEN s
  ELSE IF s[1] \in chars THEN StripChars(Tail(s), chars)
  ELSE IF s[Len(s)] \in chars THEN StripChars(SubSeq(s, 1, Len(s) - 1), chars)
  ELSE s

\* lines 347-356: strip(), strip('"\''), then title[:47] + "..." beyond 50
TitleOf(content) ==
  LET title == StripChars(StripChars(content, {" ", "\n"}), {"\"", "'"})
  IN IF Len(title) > 50 THEN FirstN(title, 47) \o <<".", ".", ".">> ELSE title

\* the call of the title model is in flight (line 341)
InitTitle ==
  /\ pc = "title"
  /\ council_models = None
  /\ chairman_model = None
  /\ calls = Tasks(<<TITLE_MODEL>>)
  /\ arrival = <<>>
  /\ requests = Requests("title", <<TITLE_MODEL>>, <<TITLE_PROMPT, UserQuery>>)
  /\ fanouts = <<>>
  /\ responses = <<>>
  /\ stage1_results = <<>>
  /\ label_to_model = EmptyDict
  /\ stage2_results = <<>>
  /\ aggregate_rankings = <<>>
  /\ stage3_result = EmptyDict
  /\ metadata = EmptyDict
  /\ ret = <<>>
  /\ exception = "none"
  /\ args = EmptyDict
  /\ value = EmptyDict
  /\ NoFetch

\* lines 343-356.  query_model returns a dict for every reply, so the test
\* of line 343 is never true, and the dict always has the key 'content', so
\* the default of line 347 is never taken: a failed call gives None there,
\* and None.strip() raises
TitleReturn ==
  /\ pc = "title"
  /\ JoinReady(calls)
  /\ LET response == calls[1].result
         content == GetOrDefault(response.content, Str(NEW_CONVERSATION))
     IN IF content.t # "str"
          THEN /\ pc' = "raised"
               /\ exception' = "AttributeError"
               /\ UNCHANGED value
          ELSE /\ pc' = "title_done"
               /\ value' = [title |-> TitleOf(content.s)]
               /\ UNCHANGED exception
  /\ UNCHANGED <<args, pricing, council_models, chairman_model, calls, arrival,
                 requests, fanouts, responses, stage1_results, label_to_model,
                 stage2_results, aggregate_rankings, stage3_result, metadata, ret>>

NextTitle ==
  \/ \E i \in 1..Len(calls), r \in RepliesAt(pc) : Complete(i, r)
  \/ TitleReturn

SpecTitle == InitTitle /\ [][NextTitle]_vars

---------------------------------------------------------------------------
(* Properties *)

ModelsOf(seq) == [i \in 1..Len(seq) |-> seq[i].model]

\* the ModelResult a fan-out holds for a model: that of its last task
LastResultOf(cs, m) ==
  cs[CHOOSE i \in 1..Len(cs) :
       cs[i].model = m /\ \A j \in (i + 1)..Len(cs) : cs[j].model # m].result

Successful(r) == Truthy(r.content) /\ ~Truthy(r.error)
Errored(r) == r.content.t = "none"
HasSystemEntry(entries) == \E i \in 1..Len(entries) : entries[i].model = "system"
RequestsOf(stage) == SelectSeq(requests, LAMBDA q : q.stage = stage)

(* C1: for every combination of per-model outcomes in stage 1, stage 2 and
   the chairman call, run_full_council never raises and ends by returning
   the 4-tuple (stage1_results, stage2_results, stage3_result, metadata). *)
C1_RunNeverRaises ==
  /\ pc # "raised"
  /\ exception = "none"
  /\ pc = "done" => DOMAIN ret = {"stage1", "stage2", "stage3", "metadata"}

(* C2, as claimed: stage1_collect_responses returns exactly one entry per
   distinct requested model id and no other entry, in list order. *)
C2_OneEntryPerModel ==
  pc = "collect_done" => ModelsOf(stage1_results) = FirstSeen(calls)

(* C2, amended: stage1_collect_responses returns, in the order of first
   position in the requested list and whatever the order of completion, one
   entry per distinct requested model whose ModelResult carries a non-empty
   error or content, holding that model's own error or content, followed by
   the "system" entry exactly when none of them is successful. *)
C2_EntriesByListPosition ==
  pc = "collect_done" =>
    LET keys == FirstSeen(calls)
        Res(m) == LastResultOf(calls, m)
        kept == SelectSeq(keys, LAMBDA m : Truthy(Res(m).error) \/ Truthy(Res(m).content))
        failed == \A i \in 1..Len(kept) : Truthy(Res(kept[i]).error)
    IN /\ ModelsOf(stage1_results) = kept \o (IF failed THEN <<"system">> ELSE <<>>)
       /\ \A i \in 1..Len(kept) :
            IF Truthy(Res(kept[i]).error)
              THEN /\ stage1_results[i].error = Res(kept[i]).error
                   /\ stage1_results[i].response = <<ERROR_BANNER>> \o Res(kept[i]).error.s
              ELSE /\ stage1_results[i].error = Absent
                   /\ stage1_results[i].response = Res(kept[i]).content.s

\* two models, the second completing first, one failing and one answering
C2_Witness ==
  /\ pc = "collect_done"
  /\ Len(calls) = 2
  /\ arrival = <<2, 1>>
  /\ calls[1].model # calls[2].model
  /\ Errored(calls[1].result) /\ Truthy(calls[1].result.error)
  /\ Successful(calls[2].result)
  /\ ModelsOf(stage1_results) = <<calls[1].model, calls[2].model>>

\* every task of the stage-1 fan-out returned an error result
AllQueriedErrored == \A i \in 1..Len(calls) : Errored(calls[i].result)

(* C3, as claimed: if every queried model returns an error in stage 1, the
   returned list is exactly one entry, whose model is "system". *)
C3_OnlySystemEntry ==
  (pc = "collect_done" /\ AllQueriedErrored) => ModelsOf(stage1_results) = <<"system">>

(* C3, amended: if every queried model returns an error in stage 1, the
   returned list ends with exactly one entry whose model is "system" (error
   all_models_failed), and before it holds only the error entries of the
   queried models, one per distinct model whose error text is non-empty. *)
C3_SystemEntryAfterErrors ==
  (pc = "collect_done" /\ AllQueriedErrored) =>
    LET n == Len(stage1_results)
        keys == FirstSeen(calls)
        named == SelectSeq(keys, LAMBDA m : Truthy(LastResultOf(calls, m).error))
    IN /\ n >= 1
       /\ stage1_results[n].model = "system"
       /\ stage1_results[n].error = Str(<<"all_models_failed">>)
       /\ ModelsOf(SubSeq(stage1_results, 1, n - 1)) = named
       /\ \A i \in 1..(n - 1) :
            /\ stage1_results[i].model # "system"
            /\ stage1_results[i].error = LastResultOf(calls, named[i]).error

\* two distinct models both failed with an error text: two entries, then "system"
C3_Witness ==
  /\ pc = "collect_done"
  /\ AllQueriedErrored
  /\ Len(stage1_results) = 3
  /\ stage1_results[3].model = "system"
  /\ Truthy(stage1_results[1].error) /\ Truthy(stage1_results[2].error)

(* C4: the stage-2 result list has an entry for a model if and only if that
   model's stage-2 ModelResult carries content; a model whose call returned
   an error result contributes no entry (and the stage still returns). *)
C4_ErroredRankersDropped ==
  Len(fanouts) >= 2 =>
    LET cs == fanouts[2].calls
        keys == FirstSeen(cs)
    IN /\ exception # "TypeError"
       /\ ModelsOf(stage2_results) =
            SelectSeq(keys, LAMBDA m : LastResultOf(cs, m).content.t = "str")

(* C5: invoked with an empty council model list, run_full_council issues no
   Model Gateway call and returns empty stage-1 and stage-2 lists with the
   error-shaped stage-3 placeholder; for a non-empty list the short-circuit
   is never taken. *)
C5_EmptyListShortCircuits ==
  /\ (pc # "idle" /\ council_models = List(<<>>)) =>
       /\ requests = <<>>
       /\ pc = "done" => ret = [stage1 |-> <<>>, stage2 |-> <<>>,
                                 stage3 |-> ERROR_PLACEHOLDER, metadata |-> EmptyDict]
  /\ (pc = "done" /\ council_models # List(<<>>)) => ret.stage3 # ERROR_PLACEHOLDER

(* C6: stage3_synthesize_final issues exactly one call, to the chairman
   model, and returns a Stage3Result: after an error or no content, one with
   a non-empty error field and an error-banner response; otherwise one
   without error field whose response is the returned content; and the run
   then returns a metadata bundle with a stage-3 cost record. *)
C6_ChairmanResult ==
  (pc \in {"done", "raised"} /\ Len(RequestsOf("3")) > 0) =>
    LET r == calls[1].result
    IN /\ Len(RequestsOf("3")) = 1
       /\ RequestsOf("3")[1].model = TargetChairman(chairman_model)
       /\ stage3_result.model = TargetChairman(chairman_model)
       /\ IF Truthy(r.error) \/ ~Truthy(r.content)
            THEN /\ Truthy(stage3_result.error)
                 /\ stage3_result.response = <<CHAIRMAN_BANNER>> \o stage3_result.error.s
            ELSE /\ stage3_result.error = Absent
                 /\ stage3_result.response = r.content.s
       /\ pc = "done"
       /\ LET cb == ret.metadata.cost_breakdown
          IN cb[Len(cb)].stage = "3" /\ cb[Len(cb)].model = stage3_result.model

(* C7: the list returned by stage1_collect_responses is never empty, and it
   holds the synthetic "system" entry if and only if no queried model
   produced a successful (content-bearing, error-free) entry. *)
C7_SystemEntryIffNoSuccess ==
  pc = "collect_done" =>
    /\ stage1_results # <<>>
    /\ HasSystemEntry(stage1_results) <=>
         ~\E i \in 1..Len(calls) : Successful(LastResultOf(calls, calls[i].model))

\* one model fails, another answers: both entries, no "system" entry
C7_Witness ==
  /\ pc = "collect_done"
  /\ \E i, j \in 1..Len(stage1_results) :
       Truthy(stage1_results[i].error) /\ stage1_results[j].error = Absent
  /\ ~HasSystemEntry(stage1_results)

(* C8: query_models_parallel launches one Model Gateway call per input
   model and returns only after every launched call has completed, whatever
   the order of completion; a call that fails or completes first neither
   cancels nor skips another call. *)
C8_JoinBarrier ==
  /\ Len(calls) = Len(council_models.s)
  /\ \A i \in 1..Len(calls) : calls[i].model = council_models.s[i]
  /\ pc = "fanout_done" =>
       /\ \A i \in 1..Len(calls) : calls[i].done /\ calls[i].reply # NoReply
       /\ Len(arrival) = Len(calls)
  /\ pc = "fanout" => responses = <<>>

\* the call that completed first failed, and a later one still answered
C8_Witness ==
  /\ pc = "fanout_done"
  /\ Len(calls) >= 2
  /\ Errored(calls[arrival[1]].result)
  /\ \E i \in 1..Len(calls) : Successful(calls[i].result)

(* C9: the mapping query_models_parallel returns has exactly the input model
   identifiers as keys, each once (also with duplicates in the input; empty
   for an empty input), and under each key the ModelResult of a call made
   for that model, whatever the order of completion; a failed call is held
   in its own model's slot as an error result. *)
C9_MappingByModel ==
  pc = "fanout_done" =>
    /\ {responses[k].model : k \in 1..Len(responses)} =
         {council_models.s[i] : i \in 1..Len(council_models.s)}
    /\ Len(responses) = Cardinality({council_models.s[i] : i \in 1..Len(council_models.s)})
    /\ \A k \in 1..Len(responses) :
         \E i \in 1..Len(calls) :
           /\ calls[i].model = responses[k].model
           /\ responses[k].response = calls[i].result
    /\ \A k \in 1..Len(responses) :
         (\A i \in 1..Len(calls) :
            calls[i].model = responses[k].model => calls[i].reply.kind \in {"exc", "status"})
           => Errored(responses[k].response)
    /\ exception = "none"

\* two models, the second completing first and answering, the first failing
C9_Witness ==
  /\ pc = "fanout_done"
  /\ Len(calls) = 2
  /\ calls[1].model # calls[2].model
  /\ arrival = <<2, 1>>
  /\ calls[1].reply.kind = "exc"
  /\ Successful(calls[2].result)
  /\ Len(responses) = 2

(* C10: every ModelResult of query_model has exactly one of content and
   error meaningfully populated: content a non-empty string and no error, or
   content none and a non-empty error; after a transport-level failure its
   usage counters are all zero. *)
C10_ExactlyOnePopulated ==
  \A i \in 1..Len(calls) :
    calls[i].done =>
      LET r == calls[i].result
      IN /\ \/ Truthy(r.content) /\ ~Truthy(r.error)
            \/ r.content.t = "none" /\ Truthy(r.error)
         /\ calls[i].reply.kind \in {"exc", "status"} => r.usage = ZeroUsage

---------------------------------------------------------------------------
(* Ranking Parser properties *)

\* out lists, in text order, the tokens of text at the positions of S
Listed(text, S, out) ==
  /\ Len(out) = Cardinality(S)
  /\ \A j \in S : out[Cardinality({k \in S : k <= j})] = text[j]

\* the positions lo..hi of text that hold a label
MentionsIn(text, lo, hi) == {j \in lo..hi : IsLabel(text[j])}

\* those of them that are numbered items: a number, white space, the label
ItemsIn(text, lo, hi) ==
  {j \in MentionsIn(text, lo, hi) :
     \E i \in lo..(j - 1) : /\ IsNumber(text[i])
                            /\ \A k \in (i + 1)..(j - 1) : text[k] \in {" ", "\n"}}

\* the numbered items of lo..hi if there is one, else every label of lo..hi
StrictThenFallback(text, lo, hi, out) ==
  IF ItemsIn(text, lo, hi) # {}
    THEN Listed(text, ItemsIn(text, lo, hi), out)
    ELSE Listed(text, MentionsIn(text, lo, hi), out)

MarkersOf(text) == {i \in 1..Len(text) : text[i] = MARKER}
First(S) == CHOOSE i \in S : \A j \in S : i <= j
\* where the section after the first marker ends: before the next marker
\* if there is one, else with the text
SectionEnd(text) ==
  LET later == MarkersOf(text) \ {First(MarkersOf(text))}
  IN IF later = {} THEN Len(text) ELSE First(later) - 1

(* C11: for a text that holds the marker, parse_ranking_from_text ignores
   every label before the marker; in the section after the marker it returns
   exactly the labels of the numbered items, in order, when there is at
   least one, and otherwise every label of the section in order.  The text
   "FINAL RANKING:\n1. Response B\n2. Response A" parses to
   ["Response B", "Response A"]. *)
C11_MarkerSection ==
  /\ (pc = "parse_done" /\ MarkersOf(args.ranking_text) # {}) =>
       StrictThenFallback(args.ranking_text, First(MarkersOf(args.ranking_text)) + 1,
                          SectionEnd(args.ranking_text), value)
  /\ ParseRanking(<<MARKER, "\n", "1.", "Response B", "\n", "2.", "Response A">>)
       = <<"Response B", "Response A">>

\* a label before the marker, a numbered item and a bare mention after it
C11_Witness ==
  /\ pc = "parse_done"
  /\ args.ranking_text = <<"Response A", MARKER, "1.", "Response B", "Response A">>
  /\ value = <<"Response B">>

(* C12: for a text without the marker, parse_ranking_from_text returns
   every label occurrence of the whole text, in order and without
   de-duplication: as many labels as there are occurrences. *)
C12_NoMarkerAllMentions ==
  (pc = "parse_done" /\ MarkersOf(args.ranking_text) = {}) =>
    Listed(args.ranking_text, MentionsIn(args.ranking_text, 1, Len(args.ranking_text)), value)

\* a text without the marker that mentions one label twice
C12_Witness ==
  /\ pc = "parse_done"
  /\ MarkersOf(args.ranking_text) = {}
  /\ Len(value) = 3
  /\ value[1] = value[3]
  /\ value[1] # value[2]

(* C13: for a text that holds the marker, also more than once, the result
   is the strict-then-fallback extraction applied to the whole suffix after
   the first marker occurrence. *)
C13_WholeSuffix ==
  (pc = "parse_done" /\ MarkersOf(args.ranking_text) # {}) =>
    StrictThenFallback(args.ranking_text, First(MarkersOf(args.ranking_text)) + 1,
                       Len(args.ranking_text), value)

---------------------------------------------------------------------------
(* Aggregate ranking properties *)

\* the mentions of a model: <<e, k>> when the k-th label of the parsed
\* ranking of the e-th entry resolves to it
Hits(m) ==
  {h \in UNION {{<<e, k>> : k \in 1..Len(args.stage2_results[e].parsed_ranking)} :
                  e \in 1..Len(args.stage2_results)} :
     LET label == args.stage2_results[h[1]].parsed_ranking[h[2]]
     IN label \in DOMAIN args.label_to_model /\ args.label_to_model[label] = m}

RECURSIVE SumOfPositions(_)
SumOfPositions(S) ==
  IF S = {} THEN 0
  ELSE LET h == CHOOSE h \in S : TRUE IN h[2] + SumOfPositions(S \ {h})

Distance(a, b) == IF a < b THEN b - a ELSE a - b
RowsOf(m) == {i \in 1..Len(value) : value[i].model = m}
RankedModels == {"m1", "m2", "m3"}

(* C14, as claimed: each mentioned model has one record whose
   rankings_count is the number of its mentions and whose average_rank
   equals the mean of the positions of those mentions; a model without a
   resolvable mention has no record. *)
C14_ExactMean ==
  pc = "aggregate_done" =>
    \A m \in RankedModels :
      IF Hits(m) = {} THEN RowsOf(m) = {}
      ELSE /\ Cardinality(RowsOf(m)) = 1
           /\ \A i \in RowsOf(m) :
                /\ value[i].rankings_count = Cardinality(Hits(m))
                /\ value[i].average_rank * Cardinality(Hits(m))
                     = 100 * SumOfPositions(Hits(m))

(* C14, amended: as above, with average_rank the mean of the positions
   rounded to 2 decimal places (here in hundredths: within half a
   hundredth of the mean).  Positions are 1-indexed places in the parsed
   sequence, labels that resolve to no model included.  For the rankings
   [A, B] and [B, A] with A -> m1 and B -> m2 both models get 1.5 and 2. *)
C14_RoundedMean ==
  /\ pc = "aggregate_done" =>
       /\ \A i \in 1..Len(value) : value[i].model \in RankedModels
       /\ \A m \in RankedModels :
            IF Hits(m) = {} THEN RowsOf(m) = {}
            ELSE /\ Cardinality(RowsOf(m)) = 1
                 /\ \A i \in RowsOf(m) :
                      /\ value[i].rankings_count = Cardinality(Hits(m))
                      /\ 2 * Distance(value[i].average_rank * Cardinality(Hits(m)),
                                      100 * SumOfPositions(Hits(m)))
                           <= Cardinality(Hits(m))
  /\ LET rows == CalculateAggregateRankings(
                   Stage2EntriesOf(<<<<"Response A", "Response B">>,
                                     <<"Response B", "Response A">>>>),
                   [l \in {"Response A", "Response B"} |->
                      IF l = "Response A" THEN "m1" ELSE "m2"])
     IN {rows[i] : i \in 1..Len(rows)}
          = {[model |-> m, average_rank |-> 150, rankings_count |-> 2] : m \in {"m1", "m2"}}

\* a model placed second behind a label that resolves to no model, and
\* first twice: its mean 4/3 is reported as 1.33
C14_Witness ==
  /\ pc = "aggregate_done"
  /\ \E e \in 1..Len(args.stage2_results) :
       /\ args.stage2_results[e].parsed_ranking = <<"Response C", "Response A">>
       /\ "Response C" \notin DOMAIN args.label_to_model
  /\ \E i \in 1..Len(value) :
       /\ value[i].model = "m1"
       /\ value[i].rankings_count = 3
       /\ value[i].average_rank = 133

\* the first mention of a model, entries in list order, labels in text order
Earlier(h, g) == h[1] < g[1] \/ (h[1] = g[1] /\ h[2] < g[2])
FirstHit(m) == CHOOSE h \in Hits(m) : \A g \in Hits(m) \ {h} : Earlier(h, g)

(* C15: the list calculate_aggregate_rankings returns is sorted
   non-decreasing by average_rank, and records of equal average_rank stand
   in the order in which their models were first mentioned. *)
C15_SortedStable ==
  pc = "aggregate_done" =>
    \A i, j \in 1..Len(value) :
      i < j =>
        /\ value[i].average_rank <= value[j].average_rank
        /\ value[i].average_rank = value[j].average_rank
             => Earlier(FirstHit(value[i].model), FirstHit(value[j].model))

\* three records: the best one was mentioned last, the other two tie and
\* the one mentioned first is not the first key of label_to_model
C15_Witness ==
  /\ pc = "aggregate_done"
  /\ Len(value) = 3
  /\ value[1].average_rank < value[2].average_rank
  /\ value[2].average_rank = value[3].average_rank
  /\ Earlier(FirstHit(value[2].model), FirstHit(value[1].model))
  /\ value[2].model = "m2"

---------------------------------------------------------------------------
(* Cost Accountant properties *)

\* the entries of the price list that carry the id of the model
EntriesFor(prices, m) == {i \in 1..Len(prices) : prices[i].id = Str(<<m>>)}

\* the price the first of them holds under a key, 0 without entry or key
PriceOf(prices, m, key) ==
  IF EntriesFor(prices, m) = {} THEN 0
  ELSE prices[First(EntriesFor(prices, m))][key].n

\* pt * pp + ct * cp, in 1 / PriceUnit millionths of a dollar
ExactCost(pt, ct) ==
  pt * PriceOf(args.prices, args.model_id, "prompt")
    + ct * PriceOf(args.prices, args.model_id, "completion")

CostOfCall(pt, ct) == CalculateCost(args.prices, args.model_id, pt, ct)

(* C17: calculate_cost never fails: for every model id, token counts and
   content of the pricing data it returns a number, and for a model id
   without an entry in the pricing data the cost is 0. *)
C17_NeverFails ==
  /\ pc # "raised"
  /\ (pc = "cost_done" /\ EntriesFor(args.prices, args.model_id) = {}) => value = 0

(* C18, as claimed: calculate_cost returns pt/1e6 * pp + ct/1e6 * cp: the
   cost is additive in the two token counts and 0 when both are 0. *)
C18_ExactCost ==
  pc = "cost_done" =>
    /\ PriceUnit * value = ExactCost(args.prompt_tokens, args.completion_tokens)
    /\ value = CostOfCall(args.prompt_tokens, 0) + CostOfCall(0, args.completion_tokens)
    /\ (args.prompt_tokens = 0 /\ args.completion_tokens = 0) => value = 0

(* C18, amended: calculate_cost returns pt/1e6 * pp + ct/1e6 * cp rounded
   to 6 decimal places, so within half a millionth of it; the cost is 0
   when both counts are 0, is additive in the two token counts up to one
   millionth, exactly so when the two parts are whole millionths, and is
   8.0 for pt = ct = 1,000,000 at the prices (2.0, 6.0). *)
C18_RoundedCost ==
  /\ pc = "cost_done" =>
       LET pt == args.prompt_tokens
           ct == args.completion_tokens
       IN /\ 2 * Distance(PriceUnit * value, ExactCost(pt, ct)) <= PriceUnit
          /\ (pt = 0 /\ ct = 0) => value = 0
          /\ Distance(value, CostOfCall(pt, 0) + CostOfCall(0, ct)) <= 1
          /\ (ExactCost(pt, 0) % PriceUnit = 0 /\ ExactCost(0, ct) % PriceUnit = 0)
               => value = CostOfCall(pt, 0) + CostOfCall(0, ct)
  /\ CalculateCost(<<PriceEntry(Str(<<"m1">>), Num(2 * PriceUnit), Num(6 * PriceUnit))>>,
                   "m1", 1000000, 1000000) = 8000000

\* a call whose cost is not the sum of the costs of its two parts
C18_Witness ==
  /\ pc = "cost_done"
  /\ args.prompt_tokens > 0
  /\ args.completion_tokens > 0
  /\ value > 0
  /\ value # CostOfCall(args.prompt_tokens, 0) + CostOfCall(0, args.completion_tokens)

---------------------------------------------------------------------------
(* Metadata properties *)

\* a usage counter of an entry, 0 when the entry's usage lacks it
Counter(entry, k) == IF k \in DOMAIN entry.usage THEN entry.usage[k] ELSE 0

\* f[1] + ... + f[n]
RECURSIVE SumTo(_, _)
SumTo(f, n) == IF n = 0 THEN 0 ELSE f[n] + SumTo(f, n - 1)

(* C16: the metadata of a run has usage totals equal to the sums of the
   counters of the stage-1 entries, the stage-2 entries and the stage-3
   result, a missing counter counting 0; cost_breakdown holds exactly
   len(stage1) + len(stage2) + 1 records: those of stage "1" in order,
   those of stage "2" in order, then one of stage "3"; the total cost is
   the sum of the costs of the breakdown. *)
C16_MetadataTotals ==
  (pc = "done" /\ metadata # EmptyDict) =>
    LET n1 == Len(stage1_results)
        n2 == Len(stage2_results)
        breakdown == metadata.cost_breakdown
    IN /\ \A k \in {"prompt_tokens", "completion_tokens", "total_tokens"} :
            metadata.usage[k]
              = SumTo([i \in 1..n1 |-> Counter(stage1_results[i], k)], n1)
                  + SumTo([i \in 1..n2 |-> Counter(stage2_results[i], k)], n2)
                  + Counter(stage3_result, k)
       /\ Len(breakdown) = n1 + n2 + 1
       /\ \A i \in 1..n1 : /\ breakdown[i].stage = "1"
                           /\ breakdown[i].model = stage1_results[i].model
       /\ \A i \in 1..n2 : /\ breakdown[n1 + i].stage = "2"
                           /\ breakdown[n1 + i].model = stage2_results[i].model
       /\ breakdown[n1 + n2 + 1].stage = "3"
       /\ breakdown[n1 + n2 + 1].model = stage3_result.model
       /\ metadata.cost
            = SumTo([i \in 1..Len(breakdown) |-> breakdown[i].cost], Len(breakdown))

\* a run with two stage-1 and two stage-2 entries, one of them with a
\* usage that lacks counters, and a cost of several calls
C16_Witness ==
  /\ pc = "done"
  /\ metadata # EmptyDict
  /\ Len(stage1_results) = 2
  /\ Len(stage2_results) = 2
  /\ \E i \in 1..2 : DOMAIN stage1_results[i].usage # DOMAIN Usage123
  /\ \E i, j \in 1..Len(metadata.cost_breakdown) :
       /\ i # j
       /\ metadata.cost_breakdown[i].cost > 0
       /\ metadata.cost_breakdown[j].cost > 0
  /\ metadata.usage.total_tokens > 0

---------------------------------------------------------------------------
(* End-to-end properties *)

\* a stage-2 answer with a valid FINAL RANKING section
ValidRanking(r) ==
  /\ Successful(r)
  /\ \E i \in MarkersOf(r.content.s) :
       MentionsIn(r.content.s, i + 1, Len(r.content.s)) # {}

\* a run has ended in which every one of N distinct council models
\* answered in stage 1, ranked validly in stage 2, and the chairman answered
AllSucceeded ==
  /\ pc \in {"done", "raised"}
  /\ Len(fanouts) = 2
  /\ \A i, j \in 1..Len(fanouts[1].calls) :
       fanouts[1].calls[i].model = fanouts[1].calls[j].model => i = j
  /\ \A i \in 1..Len(fanouts[1].calls) : Successful(fanouts[1].calls[i].result)
  /\ \A i \in 1..Len(fanouts[2].calls) : ValidRanking(fanouts[2].calls[i].result)
  /\ Len(calls) = 1
  /\ Successful(calls[1].result)

(* C19: when all N council models succeed at stage 1 and at stage 2 with a
   valid FINAL RANKING section and the chairman succeeds, the run returns a
   bundle with exactly N stage-1 entries, none of them "system", exactly N
   stage-2 entries, a stage-3 result without error, at most N aggregate
   rankings sorted ascending by average_rank, and a metadata cost >= 0,
   for every pricing data the pricing collaborator can return. *)
C19_HappyPath ==
  AllSucceeded =>
    LET N == Len(fanouts[1].calls)
    IN /\ pc = "done"
       /\ Len(ret.stage1) = N
       /\ ~HasSystemEntry(ret.stage1)
       /\ Len(ret.stage2) = N
       /\ ~Truthy(ret.stage3.error)
       /\ Len(ret.metadata.aggregate_rankings) <= N
       /\ \A i, j \in 1..Len(ret.metadata.aggregate_rankings) :
            i < j => ret.metadata.aggregate_rankings[i].average_rank
                       <= ret.metadata.aggregate_rankings[j].average_rank
       /\ ret.metadata.cost >= 0

---------------------------------------------------------------------------
(* Label properties *)

\* label_to_model has one key per stage-1 entry, the i-th entry under
\* "Response " and the i-th letter of the alphabet
KeyedByLetter ==
  /\ Cardinality(DOMAIN label_to_model) = Len(stage1_results)
  /\ \A i \in 1..Len(stage1_results) :
       /\ i <= Len(UpperCase)
       /\ ("Response " \o UpperCase[i]) \in DOMAIN label_to_model
       /\ label_to_model["Response " \o UpperCase[i]] = stage1_results[i].model

(* C20, as claimed: in a run whose council list has at most 26 models,
   label_to_model has exactly one key per stage-1 entry, the i-th entry
   keyed "Response " + the i-th letter, every label a single letter A..Z,
   for every combination of stage-1 outcomes, total failure included. *)
C20_LettersForCouncil ==
  (pc = "stage2" /\ Len(council_models.s) <= 26) => KeyedByLetter

(* C20, amended: the same for a run whose stage-1 list has at most 26
   entries: a council of at most 25 models, or one of 26 models of which
   at least one answers in stage 1, so that no "system" entry is added. *)
C20_LettersForEntries ==
  (pc = "stage2" /\ Len(stage1_results) <= 26) => KeyedByLetter

\* 25 models that all failed: the "system" entry is the 26th, under "Z"
C20_Witness ==
  /\ pc = "stage2"
  /\ Len(council_models.s) = 25
  /\ Len(stage1_results) = 26
  /\ stage1_results[26].model = "system"
  /\ label_to_model["Response Z"] = "system"

---------------------------------------------------------------------------
(* Pricing cache properties *)

\* what the cache held after its first n assignments
CacheAfter(n) ==
  IF n = 0 THEN [data |-> <<>>, timestamp |-> 0]
  ELSE [data |-> cache_writes[n].data, timestamp |-> cache_writes[n].timestamp]

(* C21: a failed refresh leaves the pricing cache, data and timestamp, as
   it was and returns the data of the last successful fetch; after a
   successful fetch no call that arrives less than the TTL of 3600 s later
   sends a request, whatever data the fetch returned. *)
C21_StaleAndTimeCached ==
  /\ pricing_cache = CacheAfter(Len(cache_writes))
  /\ \A p \in 1..Len(fetches) :
       /\ fetches[p].outcome = "failed" =>
            /\ fetches[p].ret = CacheAfter(fetches[p].completed).data
            /\ \A n \in 1..Len(cache_writes) : cache_writes[n].fetch # p
       /\ fetches[p].requested =>
            \A n \in 1..fetches[p].arrived :
              fetches[p].current_time - cache_writes[n].timestamp >= 3600

(* C25: under every interleaving of concurrent calls the timestamp of the
   pricing cache never decreases, and the cached data is never replaced by
   the result of a fetch that started before the one whose data is cached. *)
C25_CacheMonotonic ==
  \A n \in 1..Len(cache_writes), m \in 1..Len(cache_writes) :
    n < m => /\ cache_writes[n].timestamp <= cache_writes[m].timestamp
             /\ fetches[cache_writes[n].fetch].current_time
                  <= fetches[cache_writes[m].fetch].current_time

---------------------------------------------------------------------------
(* Sequencing of a run *)

StageNo(stage) == CASE stage = "1" -> 1 [] stage = "2" -> 2 [] stage = "3" -> 3

\* how far a run has come
Progress(p) ==
  CASE p = "idle" -> 0 [] p = "stage1" -> 1 [] p = "stage2" -> 2
    [] p = "stage3" -> 3 [] OTHER -> 4

\* the fan-out of a stage has returned with every call it launched completed,
\* one call per request of that stage
JoinedAll(stage) ==
  \E k \in 1..Len(fanouts) :
    /\ fanouts[k].stage = stage
    /\ Len(fanouts[k].calls) = Len(RequestsOf(stage))
    /\ \A i \in 1..Len(fanouts[k].calls) :
         /\ fanouts[k].calls[i].done
         /\ fanouts[k].calls[i].model = RequestsOf(stage)[i].model

\* the calls in flight are those of the requests of one stage
InFlight(stage) ==
  /\ Len(calls) = Len(RequestsOf(stage))
  /\ \A i \in 1..Len(calls) : calls[i].model = RequestsOf(stage)[i].model

StagesInOrder ==
  /\ \A i \in 1..Len(requests), j \in 1..Len(requests) :
       i < j => StageNo(requests[i].stage) <= StageNo(requests[j].stage)
  /\ RequestsOf("2") # <<>> => JoinedAll("1")
  /\ RequestsOf("3") # <<>> => JoinedAll("2")
  /\ pc = "stage1" => InFlight("1") /\ RequestsOf("2") = <<>> /\ RequestsOf("3") = <<>>
  /\ pc = "stage2" => InFlight("2") /\ RequestsOf("3") = <<>>
  /\ pc = "stage3" => InFlight("3")
  /\ label_to_model # EmptyDict => RequestsOf("2") # <<>>
  /\ metadata # EmptyDict =>
       /\ pc = "done"
       /\ Len(RequestsOf("3")) = 1
       /\ InFlight("3")
       /\ calls[1].done
       /\ metadata.label_to_model = label_to_model

NoStepBack ==
  /\ Progress(pc') >= Progress(pc)
  /\ \A n \in 1..Len(requests) : Len(requests') >= n /\ requests'[n] = requests[n]
  /\ RequestsOf("2") # <<>> => label_to_model' = label_to_model
  /\ metadata # EmptyDict => metadata' = metadata

(* C22: within one run the stages are strictly sequential with no backward
   transition: no stage-2 request is issued before every stage-1 call has
   completed, the chairman request is not issued before every stage-2 call
   has completed, no stage-1 or stage-2 request is issued after the chairman
   request, and metadata (with label_to_model, which is never modified after
   its creation in stage 2) is computed only after the chairman call has
   completed. *)
C22_StagesSequential == []StagesInOrder /\ [][NoStepBack]_vars

\* a run that went through the three stages with several council models
\* and returned its metadata
C22_Witness ==
  /\ pc = "done"
  /\ metadata # EmptyDict
  /\ Len(RequestsOf("1")) >= 2
  /\ Len(RequestsOf("2")) >= 2
  /\ Len(RequestsOf("3")) = 1
  /\ metadata.label_to_model = label_to_model
  /\ label_to_model # EmptyDict

---------------------------------------------------------------------------
(* The ranking prompt *)

\* the identifiers of the council models of the run
CouncilIds == {TargetModels(council_models)[i] : i \in 1..Len(TargetModels(council_models))}

Mentions(prompt, ids) == \E k \in 1..Len(prompt) : prompt[k] \in ids

(* C23: the stage-2 ranking prompt is anonymized and the same for every
   ranking model: every stage-2 request of a run carries one prompt, and no
   identifier of a council model appears in it, also when some or all of
   the stage-1 calls failed (so that two runs differing only in these
   identifiers send the same prompt). *)
C23_PromptAnonymized ==
  \A i \in 1..Len(RequestsOf("2")) :
    /\ RequestsOf("2")[i].prompt = RequestsOf("2")[1].prompt
    /\ ~Mentions(RequestsOf("2")[i].prompt, CouncilIds)

---------------------------------------------------------------------------
(* The aggregate rankings of a run *)

\* the places of a Stage2Entry's parsed ranking whose label the run's
\* mapping resolves
Resolvable(entry) ==
  {k \in 1..Len(entry.parsed_ranking) : entry.parsed_ranking[k] \in DOMAIN label_to_model}

LongestRanking ==
  IF stage2_results = <<>> THEN 0
  ELSE CHOOSE n \in {Len(stage2_results[i].parsed_ranking) : i \in 1..Len(stage2_results)} :
         \A i \in 1..Len(stage2_results) : Len(stage2_results[i].parsed_ranking) <= n

(* C24: in the metadata of every run, each model of aggregate_rankings is
   the model of some stage-1 entry of the run (an errored entry or the
   "system" entry included) and appears once, its rankings_count is at
   least 1, its average_rank (in hundredths) lies between 1 and the length
   of the longest parsed ranking, and the rankings_count values sum to the
   number of resolvable label mentions over all Stage2Entries. *)
C24_AggregateWellFormed ==
  (pc = "done" /\ metadata # EmptyDict) =>
    LET agg == metadata.aggregate_rankings
        n2 == Len(stage2_results)
    IN /\ \A i \in 1..Len(agg) :
            /\ \E k \in 1..Len(ret.stage1) : ret.stage1[k].model = agg[i].model
            /\ \A j \in 1..Len(agg) : agg[j].model = agg[i].model => j = i
            /\ agg[i].rankings_count >= 1
            /\ agg[i].average_rank >= 100
            /\ agg[i].average_rank <= 100 * LongestRanking
       /\ SumTo([i \in 1..Len(agg) |-> agg[i].rankings_count], Len(agg))
            = SumTo([i \in 1..n2 |-> Cardinality(Resolvable(stage2_results[i]))], n2)
       /\ ret.stage2 = stage2_results
       /\ ret.metadata = metadata

\* a run whose rankers named labels of both stage-1 entries, one of them
\* twice, and a label that no entry has
C24_Witness ==
  /\ pc = "done"
  /\ metadata # EmptyDict
  /\ Len(metadata.aggregate_rankings) = 2
  /\ \E i \in 1..2 : metadata.aggregate_rankings[i].rankings_count >= 3
  /\ \E i \in 1..Len(stage2_results) :
       Cardinality(Resolvable(stage2_results[i])) < Len(stage2_results[i].parsed_ranking)
  /\ \E i \in 1..2 : metadata.aggregate_rankings[i].average_rank > 100

---------------------------------------------------------------------------
(* The conversation title *)

\* the answer of the title model without the white space and the quotes
\* around it
Cleaned(text) == StripChars(StripChars(text, {" ", "\n"}), {"\"", "'"})

(* C26: generate_conversation_title always returns a title of at most 50
   characters and never raises: when the call of the title model fails (an
   error result with no content) the title is "New Conversation", and a
   generated title of more than 50 characters is cut to its first 47
   characters followed by "...". *)
C26_TitleAlwaysReturned ==
  /\ pc # "raised"
  /\ pc = "title_done" =>
       /\ Len(value.title) <= 50
       /\ Errored(calls[1].result) => value.title = NEW_CONVERSATION
       /\ ~Errored(calls[1].result) =>
            LET title == Cleaned(calls[1].result.content.s)
            IN value.title = IF Len(title) > 50
                               THEN SubSeq(title, 1, 47) \o <<".", ".", ".">>
                               ELSE title

====
